---- MODULE Spec2Model ----
(***************************************************************************)
(* wisey_telemetry: the tracing initializer and span helpers               *)
(* (telemetry.py) and the two metric registries (kafka_metrics.py,         *)
(* job_metrics.py) with their process-wide singleton handles.              *)
(*                                                                         *)
(* The metric backend is modelled as the bag of samples the instruments    *)
(* accepted: a sample is the instrument's name, the amount and the label   *)
(* set of one add/record call.  A registry method is the sequence of       *)
(* instrument calls its body makes, executed in order; a call that raises  *)
(* ends the method there and the error leaves the method unless the        *)
(* method's own code catches it.  A registry method is called on any       *)
(* registry object the host holds: the one behind the global handle or one *)
(* it constructed itself.  A scope of the host (start_trace_span block,    *)
(* trace_function call, measure_send_time or measure_job_duration block)   *)
(* is entered and left in two steps, and the host's block may make any API *)
(* call in between.                                                        *)
(*                                                                         *)
(*   Spec         the host calls the API from one thread of control and    *)
(*                the instruments accept every sample.                     *)
(*   SpecFault    as Spec, and any instrument call may raise.              *)
(*   SpecThreads  several threads run init_kafka_metrics /                 *)
(*                init_job_metrics, interleaved statement by statement.    *)
(***************************************************************************)
EXTENDS Integers, Sequences, FiniteSets, Bags, TLC

\* ------------------------------------------------------------------ bounds
\* API calls made by the host in one behaviour.
MaxCalls == 3
\* Threads that call init_* concurrently (SpecThreads).
NumThreads == 2

\* ------------------------------------------------------------------ inputs
ServiceNames == {"svcA", "svcB"}
Topics == {"orders", "events"}
JobTypes == {"export", "import"}
ErrorCodes == {"E_TIMEOUT"}
MessageTypes == {"update"}
CacheTypes == {"result"}
SpanNames == {"op"}
\* Durations passed to record_send_duration and record_job_completed.
Elapsed == {0, 1}
\* time.time() readings of one measured block, in the order they are made: start_time
\* before the yield, the next reading and the one after it when the block is left.
Clocks == {<<100, 100, 100>>, <<100, 101, 101>>, <<100, 100, 101>>, <<100, 101, 103>>}
\* The readings a measured block can start with.
StartTimes == {clock[1] : clock \in Clocks}
\* Amounts passed to record_retry_attempts, record_ws_connection, record_ws_subscription.
Attempts == {1, 2}
Deltas == {-1, 1}
\* Value returned by a traced callable.
ReturnValues == {7}
\* attrs of start_trace_span: none, or one key and value.
AttrSets == {{}, {<<"k", "v">>}}
\* Which instrument call of a method body raises (0: none); no body makes more than three.
FaultPositions == {0, 1, 2, 3}

\* Python's None; objects are numbered from 1.
None == 0
\* An error is its class name, the pieces of its message and the names along its
\* class's __mro__.
NoError == [type |-> "none", msg |-> <<>>, mro |-> <<>>]
\* Errors raised by the host's own wrapped block or callable: two subclasses of
\* Exception and asyncio.CancelledError, which derives from BaseException directly.
BlockErrors ==
    {[type |-> "ValueError", msg |-> <<"boom">>,
      mro |-> <<"ValueError", "Exception", "BaseException", "object">>],
     [type |-> "TypeError", msg |-> <<"bad">>,
      mro |-> <<"TypeError", "Exception", "BaseException", "object">>],
     [type |-> "CancelledError", msg |-> <<"cancelled">>,
      mro |-> <<"CancelledError", "BaseException", "object">>]}
\* The error of an instrument call that fails.
InstrumentError ==
    [type |-> "RuntimeError", msg |-> <<"backend unavailable">>,
     mro |-> <<"RuntimeError", "Exception", "BaseException", "object">>]
\* os.environ as init_telemetry may find it: a record of the variables that are set,
\* their values as sequences of code points.  JAEGER_HOST "j" with JAEGER_PORT "6832";
\* JAEGER_PORT of a no-break space, ARABIC-INDIC DIGIT SIX and "831"; "abc"; "".
Environs ==
    {[v \in {} |-> <<>>],
     [JAEGER_HOST |-> <<106>>, JAEGER_PORT |-> <<54, 56, 51, 50>>],
     [JAEGER_PORT |-> <<160, 1638, 56, 51, 49>>],
     [JAEGER_PORT |-> <<97, 98, 99>>],
     [JAEGER_PORT |-> <<>>]}
Threads == 1..NumThreads

VARIABLES
    _kafka_metrics,    \* kafka_metrics._kafka_metrics: None or a KafkaMetrics object
    kafkaObjs,         \* the KafkaMetrics objects constructed so far
    _job_metrics,      \* job_metrics._job_metrics: None or a JobMetrics object
    jobObjs,           \* the JobMetrics objects constructed so far
    store,             \* the samples the instruments accepted (a bag)
    _TRACER_PROVIDER,  \* the ambient tracer provider (opentelemetry.trace): None or a provider
    providers,         \* the TracerProvider objects built so far
    open,              \* the scopes entered and not yet left, innermost last
    lastSpan,          \* the span of the traced scope left most recently
    last,              \* the most recent API step: operation, receiver, argument, outcome
    calls,             \* API calls made so far
    pc,                \* SpecThreads: each thread's position in init_*
    local              \* SpecThreads: each thread's call (registry kind, name), new object and result

vars == <<_kafka_metrics, kafkaObjs, _job_metrics, jobObjs, store, _TRACER_PROVIDER,
          providers, open, lastSpan, last, calls, pc, local>>

\* ------------------------------------------------------------ the backend
Sample(inst, value, labels) == [inst |-> inst, value |-> value, labels |-> labels]

\* Calls in bag b made on instrument inst whose label set holds label lbl.
RECURSIVE CopiesOver(_, _)
CopiesOver(b, S) ==
    IF S = {} THEN 0
    ELSE LET s == CHOOSE x \in S : TRUE
         IN  CopiesIn(s, b) + CopiesOver(b, S \ {s})

RECURSIVE AmountOver(_, _)
AmountOver(b, S) ==
    IF S = {} THEN 0
    ELSE LET s == CHOOSE x \in S : TRUE
         IN  s.value * CopiesIn(s, b) + AmountOver(b, S \ {s})

\* Number of observations on instrument inst carrying label lbl.
Observations(b, inst, lbl) ==
    CopiesOver(b, {s \in BagToSet(b) : s.inst = inst /\ lbl \in s.labels})

\* Accumulated value of instrument inst over the samples carrying label lbl.
Value(b, inst, lbl) ==
    AmountOver(b, {s \in BagToSet(b) : s.inst = inst /\ lbl \in s.labels})

\* instrument.add(...) / instrument.record(...) for each element of cs in order; the
\* k-th call raises (k = 0: none does), and nothing after it in cs is executed.
RECURSIVE Invoke(_, _, _)
Invoke(b, cs, k) ==
    IF cs = <<>> THEN [store |-> b, raised |-> FALSE]
    ELSE IF k = 1 THEN [store |-> b, raised |-> TRUE]
    ELSE Invoke(b (+) SetToBag({Head(cs)}), Tail(cs), IF k = 0 THEN 0 ELSE k - 1)

Service(self) == <<"service", self.service_name>>

\* isinstance(e, Exception), the test of the clause `except Exception`.
IsException(e) == \E i \in DOMAIN e.mro : e.mro[i] = "Exception"

\* ------------------------------------------------- kafka_metrics.KafkaMetrics
KafkaMetrics(service_name) == [service_name |-> service_name]

\* The instrument names _init_metrics registers.
KafkaInstruments ==
    {"kafka_messages_sent_total", "kafka_messages_failed_total",
     "kafka_producer_reconnections_total", "kafka_send_duration_seconds",
     "kafka_retry_attempts", "kafka_producer_health"}

record_message_sent(self, topic, success) ==
    LET labels == {<<"topic", topic>>, Service(self)}
    IN  IF success THEN <<Sample("kafka_messages_sent_total", 1, labels)>>
        ELSE <<Sample("kafka_messages_failed_total", 1, labels)>>

record_reconnection(self) ==
    <<Sample("kafka_producer_reconnections_total", 1, {Service(self)})>>

record_send_duration(self, duration, topic) ==
    <<Sample("kafka_send_duration_seconds", duration, {<<"topic", topic>>, Service(self)})>>

record_retry_attempts(self, attempts, topic) ==
    <<Sample("kafka_retry_attempts", attempts, {<<"topic", topic>>, Service(self)})>>

set_producer_health(self, healthy) ==
    LET value == IF healthy THEN 1 ELSE -1
    IN  <<Sample("kafka_producer_health", value, {Service(self)})>>

\* The context manager resumed after its yield, around a block that raised blockErr
\* (NoError: it returned).  clock holds the time.time() readings in the order the code
\* makes them: start_time, read before the yield, one in the try branch if the block
\* returned, one in the except branch if an error was caught.  f is the failing instrument call of the try branch,
\* g of the except branch.  `except Exception` catches an Exception raised after the
\* yield inside the try, the block's or an instrument's, and the bare raise re-raises
\* it unless a call of the except branch raises first; an error outside Exception
\* passes through with nothing recorded.
measure_send_time(b, self, topic, clock, blockErr, f, g) ==
    LET start_time == clock[1]
        returned == blockErr = NoError
        tryCalls == IF returned
                    THEN record_send_duration(self, clock[2] - start_time, topic)
                         \o record_message_sent(self, topic, TRUE)
                    ELSE <<>>
        t == Invoke(b, tryCalls, f)
        caught == IF IsException(blockErr) THEN blockErr
                  ELSE IF t.raised THEN InstrumentError ELSE NoError
        now == IF returned THEN clock[3] ELSE clock[2]
        excCalls == IF caught # NoError
                    THEN record_send_duration(self, now - start_time, topic)
                         \o record_message_sent(self, topic, FALSE)
                    ELSE <<>>
        e == Invoke(t.store, excCalls, g)
    IN  [store |-> e.store,
         raised |-> IF e.raised THEN InstrumentError
                    ELSE IF caught # NoError THEN caught ELSE blockErr,
         tryCalls |-> Len(tryCalls), excCalls |-> Len(excCalls),
         readings |-> 1 + (IF returned THEN 1 ELSE 0) + (IF caught # NoError THEN 1 ELSE 0)]

\* ----------------------------------------------------- job_metrics.JobMetrics
JobMetrics(service_name) == [service_name |-> service_name]

\* The instrument names _init_metrics registers.
JobInstruments ==
    {"jobs_created_total", "jobs_completed_total", "jobs_failed_total",
     "jobs_cancelled_total", "jobs_expired_total", "job_duration_seconds",
     "job_queue_size", "websocket_connections", "websocket_subscriptions",
     "websocket_messages_sent_total", "websocket_heartbeats_total",
     "job_poll_requests_total", "job_cache_hits_total", "job_cache_misses_total",
     "idempotent_requests_total", "idempotent_hits_total"}

record_job_created(self, job_type) ==
    LET labels == {<<"job_type", job_type>>, Service(self)}
    IN  <<Sample("jobs_created_total", 1, labels),
          Sample("job_queue_size", 1, {Service(self)})>>

record_job_completed(self, job_type, duration) ==
    LET labels == {<<"job_type", job_type>>, Service(self)}
    IN  <<Sample("jobs_completed_total", 1, labels),
          Sample("job_duration_seconds", duration, labels),
          Sample("job_queue_size", -1, {Service(self)})>>

record_job_failed(self, job_type, error_code) ==
    LET labels == {<<"job_type", job_type>>, <<"error_code", error_code>>, Service(self)}
    IN  <<Sample("jobs_failed_total", 1, labels),
          Sample("job_queue_size", -1, {Service(self)})>>

record_job_cancelled(self, job_type) ==
    LET labels == {<<"job_type", job_type>>, Service(self)}
    IN  <<Sample("jobs_cancelled_total", 1, labels),
          Sample("job_queue_size", -1, {Service(self)})>>

record_job_expired(self, job_type) ==
    LET labels == {<<"job_type", job_type>>, Service(self)}
    IN  <<Sample("jobs_expired_total", 1, labels),
          Sample("job_queue_size", -1, {Service(self)})>>

record_ws_connection(self, delta) ==
    <<Sample("websocket_connections", delta, {Service(self)})>>

record_ws_subscription(self, delta) ==
    <<Sample("websocket_subscriptions", delta, {Service(self)})>>

record_ws_message(self, message_type) ==
    <<Sample("websocket_messages_sent_total", 1, {<<"type", message_type>>, Service(self)})>>

record_ws_heartbeat(self) ==
    <<Sample("websocket_heartbeats_total", 1, {Service(self)})>>

record_poll_request(self, job_type) ==
    <<Sample("job_poll_requests_total", 1, {<<"job_type", job_type>>, Service(self)})>>

record_cache_hit(self, cache_type) ==
    <<Sample("job_cache_hits_total", 1, {<<"type", cache_type>>, Service(self)})>>

record_cache_miss(self, cache_type) ==
    <<Sample("job_cache_misses_total", 1, {<<"type", cache_type>>, Service(self)})>>

record_idempotent_request(self) ==
    <<Sample("idempotent_requests_total", 1, {Service(self)})>>

record_idempotent_hit(self) ==
    <<Sample("idempotent_hits_total", 1, {Service(self)})>>

\* measure_job_duration with the except branch's inline label set lacking the service.
measure_job_duration_no_service(b, self, job_type, clock, blockErr, f, g) ==
    LET start_time == clock[1]
        returned == blockErr = NoError
        tryCalls == IF returned
                    THEN record_job_completed(self, job_type, clock[2] - start_time)
                    ELSE <<>>
        t == Invoke(b, tryCalls, f)
        caught == IF IsException(blockErr) THEN blockErr
                  ELSE IF t.raised THEN InstrumentError ELSE NoError
        now == IF returned THEN clock[3] ELSE clock[2]
        excCalls == IF caught # NoError
                    THEN <<Sample("job_duration_seconds", now - start_time,
                                  {<<"job_type", job_type>>, <<"status", "failed">>})>>
                    ELSE <<>>
        e == Invoke(t.store, excCalls, g)
    IN  [store |-> e.store,
         raised |-> IF e.raised THEN InstrumentError
                    ELSE IF caught # NoError THEN caught ELSE blockErr,
         tryCalls |-> Len(tryCalls), excCalls |-> Len(excCalls),
         readings |-> 1 + (IF returned THEN 1 ELSE 0) + (IF caught # NoError THEN 1 ELSE 0)]

\* The context manager resumed after its yield, around a job that raised blockErr
\* (NoError: it returned).  The try branch is record_job_completed; the except branch makes one job_duration.record
\* call with status "failed" and re-raises.  clock, f and g as in measure_send_time.
measure_job_duration(b, self, job_type, clock, blockErr, f, g) ==
    LET start_time == clock[1]
        returned == blockErr = NoError
        tryCalls == IF returned
                    THEN record_job_completed(self, job_type, clock[2] - start_time)
                    ELSE <<>>
        t == Invoke(b, tryCalls, f)
        caught == IF IsException(blockErr) THEN blockErr
                  ELSE IF t.raised THEN InstrumentError ELSE NoError
        now == IF returned THEN clock[3] ELSE clock[2]
        excCalls == IF caught # NoError
                    THEN <<Sample("job_duration_seconds", now - start_time,
                                  {<<"job_type", job_type>>, <<"status", "failed">>,
                                   Service(self)})>>
                    ELSE <<>>
        e == Invoke(t.store, excCalls, g)
    IN  [store |-> e.store,
         raised |-> IF e.raised THEN InstrumentError
                    ELSE IF caught # NoError THEN caught ELSE blockErr,
         tryCalls |-> Len(tryCalls), excCalls |-> Len(excCalls),
         readings |-> 1 + (IF returned THEN 1 ELSE 0) + (IF caught # NoError THEN 1 ELSE 0)]

\* ---------------------------------------------------------------- telemetry
\* os.getenv(key, default)
getenv(env, key, default) == IF key \in DOMAIN env THEN env[key] ELSE default

\* Strings are sequences of code points.  The code point of digit zero of every
\* decimal-digit run of Unicode: int() accepts each of them for its value 0..9.
DecimalZeros ==
    {48, 1632, 1776, 1984, 2406, 2534, 2662, 2790, 2918, 3046, 3174, 3302, 3430,
     3558, 3664, 3792, 3872, 4160, 4240, 6112, 6160, 6470, 6608, 6784, 6800, 6992,
     7088, 7232, 7248, 42528, 43216, 43264, 43472, 43504, 43600, 44016, 65296, 66720,
     68912, 69734, 69872, 69942, 70096, 70384, 70736, 70864, 71248, 71360, 71472,
     71904, 72016, 72784, 73040, 73120, 92768, 92864, 93008, 120782, 120792, 120802,
     120812, 120822, 123200, 123632, 125264, 130032}
Digits == UNION {z..(z + 9) : z \in DecimalZeros}
DigitValue(c) == c - (CHOOSE z \in DecimalZeros : c \in z..(z + 9))
\* The code points int() skips around the literal: \t \n \x0b \x0c \r, the blank,
\* \x85, \xa0 and the Unicode spaces and line separators.
Whitespace ==
    {9, 10, 11, 12, 13, 32, 133, 160, 5760, 8232, 8233, 8239, 8287, 12288} \cup 8192..8202
\* "+", "-", "_"
Plus == 43
Minus == 45
Underscore == 95

\* s without its leading whitespace.
lstrip(s) ==
    LET kept == {i \in DOMAIN s : s[i] \notin Whitespace}
    IN  IF kept = {} THEN <<>>
        ELSE SubSeq(s, CHOOSE i \in kept : \A j \in kept : i <= j, Len(s))

\* The value of the digits of s read after acc, underscores passed over; s is taken
\* by halves.
RECURSIVE DecimalValue(_, _)
DecimalValue(s, acc) ==
    IF s = <<>> THEN acc
    ELSE IF Len(s) = 1
         THEN IF s[1] = Underscore THEN acc ELSE 10 * acc + DigitValue(s[1])
    ELSE LET half == Len(s) \div 2
         IN  DecimalValue(SubSeq(s, half + 1, Len(s)),
                          DecimalValue(SubSeq(s, 1, half), acc))

\* "'", '"', "\"
Quote == 39
DoubleQuote == 34
Backslash == 92
\* The code points beyond ASCII that str.isprintable() rejects, as closed ranges
\* (Unicode 14.0): repr() writes them as escapes.
NonPrintable ==
    {<<128, 160>>, <<173, 173>>, <<888, 889>>, <<896, 899>>, <<907, 907>>,
     <<909, 909>>, <<930, 930>>, <<1328, 1328>>, <<1367, 1368>>, <<1419, 1420>>,
     <<1424, 1424>>, <<1480, 1487>>, <<1515, 1518>>, <<1525, 1541>>, <<1564, 1564>>,
     <<1757, 1757>>, <<1806, 1807>>, <<1867, 1868>>, <<1970, 1983>>, <<2043, 2044>>,
     <<2094, 2095>>, <<2111, 2111>>, <<2140, 2141>>, <<2143, 2143>>, <<2155, 2159>>,
     <<2191, 2199>>, <<2274, 2274>>, <<2436, 2436>>, <<2445, 2446>>, <<2449, 2450>>,
     <<2473, 2473>>, <<2481, 2481>>, <<2483, 2485>>, <<2490, 2491>>, <<2501, 2502>>,
     <<2505, 2506>>, <<2511, 2518>>, <<2520, 2523>>, <<2526, 2526>>, <<2532, 2533>>,
     <<2559, 2560>>, <<2564, 2564>>, <<2571, 2574>>, <<2577, 2578>>, <<2601, 2601>>,
     <<2609, 2609>>, <<2612, 2612>>, <<2615, 2615>>, <<2618, 2619>>, <<2621, 2621>>,
     <<2627, 2630>>, <<2633, 2634>>, <<2638, 2640>>, <<2642, 2648>>, <<2653, 2653>>,
     <<2655, 2661>>, <<2679, 2688>>, <<2692, 2692>>, <<2702, 2702>>, <<2706, 2706>>,
     <<2729, 2729>>, <<2737, 2737>>, <<2740, 2740>>, <<2746, 2747>>, <<2758, 2758>>,
     <<2762, 2762>>, <<2766, 2767>>, <<2769, 2783>>, <<2788, 2789>>, <<2802, 2808>>,
     <<2816, 2816>>, <<2820, 2820>>, <<2829, 2830>>, <<2833, 2834>>, <<2857, 2857>>,
     <<2865, 2865>>, <<2868, 2868>>, <<2874, 2875>>, <<2885, 2886>>, <<2889, 2890>>,
     <<2894, 2900>>, <<2904, 2907>>, <<2910, 2910>>, <<2916, 2917>>, <<2936, 2945>>,
     <<2948, 2948>>, <<2955, 2957>>, <<2961, 2961>>, <<2966, 2968>>, <<2971, 2971>>,
     <<2973, 2973>>, <<2976, 2978>>, <<2981, 2983>>, <<2987, 2989>>, <<3002, 3005>>,
     <<3011, 3013>>, <<3017, 3017>>, <<3022, 3023>>, <<3025, 3030>>, <<3032, 3045>>,
     <<3067, 3071>>, <<3085, 3085>>, <<3089, 3089>>, <<3113, 3113>>, <<3130, 3131>>,
     <<3141, 3141>>, <<3145, 3145>>, <<3150, 3156>>, <<3159, 3159>>, <<3163, 3164>>,
     <<3166, 3167>>, <<3172, 3173>>, <<3184, 3190>>, <<3213, 3213>>, <<3217, 3217>>,
     <<3241, 3241>>, <<3252, 3252>>, <<3258, 3259>>, <<3269, 3269>>, <<3273, 3273>>,
     <<3278, 3284>>, <<3287, 3292>>, <<3295, 3295>>, <<3300, 3301>>, <<3312, 3312>>,
     <<3315, 3327>>, <<3341, 3341>>, <<3345, 3345>>, <<3397, 3397>>, <<3401, 3401>>,
     <<3408, 3411>>, <<3428, 3429>>, <<3456, 3456>>, <<3460, 3460>>, <<3479, 3481>>,
     <<3506, 3506>>, <<3516, 3516>>, <<3518, 3519>>, <<3527, 3529>>, <<3531, 3534>>,
     <<3541, 3541>>, <<3543, 3543>>, <<3552, 3557>>, <<3568, 3569>>, <<3573, 3584>>,
     <<3643, 3646>>, <<3676, 3712>>, <<3715, 3715>>, <<3717, 3717>>, <<3723, 3723>>,
     <<3748, 3748>>, <<3750, 3750>>, <<3774, 3775>>, <<3781, 3781>>, <<3783, 3783>>,
     <<3790, 3791>>, <<3802, 3803>>, <<3808, 3839>>, <<3912, 3912>>, <<3949, 3952>>,
     <<3992, 3992>>, <<4029, 4029>>, <<4045, 4045>>, <<4059, 4095>>, <<4294, 4294>>,
     <<4296, 4300>>, <<4302, 4303>>, <<4681, 4681>>, <<4686, 4687>>, <<4695, 4695>>,
     <<4697, 4697>>, <<4702, 4703>>, <<4745, 4745>>, <<4750, 4751>>, <<4785, 4785>>,
     <<4790, 4791>>, <<4799, 4799>>, <<4801, 4801>>, <<4806, 4807>>, <<4823, 4823>>,
     <<4881, 4881>>, <<4886, 4887>>, <<4955, 4956>>, <<4989, 4991>>, <<5018, 5023>>,
     <<5110, 5111>>, <<5118, 5119>>, <<5760, 5760>>, <<5789, 5791>>, <<5881, 5887>>,
     <<5910, 5918>>, <<5943, 5951>>, <<5972, 5983>>, <<5997, 5997>>, <<6001, 6001>>,
     <<6004, 6015>>, <<6110, 6111>>, <<6122, 6127>>, <<6138, 6143>>, <<6158, 6158>>,
     <<6170, 6175>>, <<6265, 6271>>, <<6315, 6319>>, <<6390, 6399>>, <<6431, 6431>>,
     <<6444, 6447>>, <<6460, 6463>>, <<6465, 6467>>, <<6510, 6511>>, <<6517, 6527>>,
     <<6572, 6575>>, <<6602, 6607>>, <<6619, 6621>>, <<6684, 6685>>, <<6751, 6751>>,
     <<6781, 6782>>, <<6794, 6799>>, <<6810, 6815>>, <<6830, 6831>>, <<6863, 6911>>,
     <<6989, 6991>>, <<7039, 7039>>, <<7156, 7163>>, <<7224, 7226>>, <<7242, 7244>>,
     <<7305, 7311>>, <<7355, 7356>>, <<7368, 7375>>, <<7419, 7423>>, <<7958, 7959>>,
     <<7966, 7967>>, <<8006, 8007>>, <<8014, 8015>>, <<8024, 8024>>, <<8026, 8026>>,
     <<8028, 8028>>, <<8030, 8030>>, <<8062, 8063>>, <<8117, 8117>>, <<8133, 8133>>,
     <<8148, 8149>>, <<8156, 8156>>, <<8176, 8177>>, <<8181, 8181>>, <<8191, 8207>>,
     <<8232, 8239>>, <<8287, 8303>>, <<8306, 8307>>, <<8335, 8335>>, <<8349, 8351>>,
     <<8385, 8399>>, <<8433, 8447>>, <<8588, 8591>>, <<9255, 9279>>, <<9291, 9311>>,
     <<11124, 11125>>, <<11158, 11158>>, <<11508, 11512>>, <<11558, 11558>>,
     <<11560, 11564>>, <<11566, 11567>>, <<11624, 11630>>, <<11633, 11646>>,
     <<11671, 11679>>, <<11687, 11687>>, <<11695, 11695>>, <<11703, 11703>>,
     <<11711, 11711>>, <<11719, 11719>>, <<11727, 11727>>, <<11735, 11735>>,
     <<11743, 11743>>, <<11870, 11903>>, <<11930, 11930>>, <<12020, 12031>>,
     <<12246, 12271>>, <<12284, 12288>>, <<12352, 12352>>, <<12439, 12440>>,
     <<12544, 12548>>, <<12592, 12592>>, <<12687, 12687>>, <<12772, 12783>>,
     <<12831, 12831>>, <<42125, 42127>>, <<42183, 42191>>, <<42540, 42559>>,
     <<42744, 42751>>, <<42955, 42959>>, <<42962, 42962>>, <<42964, 42964>>,
     <<42970, 42993>>, <<43053, 43055>>, <<43066, 43071>>, <<43128, 43135>>,
     <<43206, 43213>>, <<43226, 43231>>, <<43348, 43358>>, <<43389, 43391>>,
     <<43470, 43470>>, <<43482, 43485>>, <<43519, 43519>>, <<43575, 43583>>,
     <<43598, 43599>>, <<43610, 43611>>, <<43715, 43738>>, <<43767, 43776>>,
     <<43783, 43784>>, <<43791, 43792>>, <<43799, 43807>>, <<43815, 43815>>,
     <<43823, 43823>>, <<43884, 43887>>, <<44014, 44015>>, <<44026, 44031>>,
     <<55204, 55215>>, <<55239, 55242>>, <<55292, 63743>>, <<64110, 64111>>,
     <<64218, 64255>>, <<64263, 64274>>, <<64280, 64284>>, <<64311, 64311>>,
     <<64317, 64317>>, <<64319, 64319>>, <<64322, 64322>>, <<64325, 64325>>,
     <<64451, 64466>>, <<64912, 64913>>, <<64968, 64974>>, <<64976, 65007>>,
     <<65050, 65055>>, <<65107, 65107>>, <<65127, 65127>>, <<65132, 65135>>,
     <<65141, 65141>>, <<65277, 65280>>, <<65471, 65473>>, <<65480, 65481>>,
     <<65488, 65489>>, <<65496, 65497>>, <<65501, 65503>>, <<65511, 65511>>,
     <<65519, 65531>>, <<65534, 65535>>, <<65548, 65548>>, <<65575, 65575>>,
     <<65595, 65595>>, <<65598, 65598>>, <<65614, 65615>>, <<65630, 65663>>,
     <<65787, 65791>>, <<65795, 65798>>, <<65844, 65846>>, <<65935, 65935>>,
     <<65949, 65951>>, <<65953, 65999>>, <<66046, 66175>>, <<66205, 66207>>,
     <<66257, 66271>>, <<66300, 66303>>, <<66340, 66348>>, <<66379, 66383>>,
     <<66427, 66431>>, <<66462, 66462>>, <<66500, 66503>>, <<66518, 66559>>,
     <<66718, 66719>>, <<66730, 66735>>, <<66772, 66775>>, <<66812, 66815>>,
     <<66856, 66863>>, <<66916, 66926>>, <<66939, 66939>>, <<66955, 66955>>,
     <<66963, 66963>>, <<66966, 66966>>, <<66978, 66978>>, <<66994, 66994>>,
     <<67002, 67002>>, <<67005, 67071>>, <<67383, 67391>>, <<67414, 67423>>,
     <<67432, 67455>>, <<67462, 67462>>, <<67505, 67505>>, <<67515, 67583>>,
     <<67590, 67591>>, <<67593, 67593>>, <<67638, 67638>>, <<67641, 67643>>,
     <<67645, 67646>>, <<67670, 67670>>, <<67743, 67750>>, <<67760, 67807>>,
     <<67827, 67827>>, <<67830, 67834>>, <<67868, 67870>>, <<67898, 67902>>,
     <<67904, 67967>>, <<68024, 68027>>, <<68048, 68049>>, <<68100, 68100>>,
     <<68103, 68107>>, <<68116, 68116>>, <<68120, 68120>>, <<68150, 68151>>,
     <<68155, 68158>>, <<68169, 68175>>, <<68185, 68191>>, <<68256, 68287>>,
     <<68327, 68330>>, <<68343, 68351>>, <<68406, 68408>>, <<68438, 68439>>,
     <<68467, 68471>>, <<68498, 68504>>, <<68509, 68520>>, <<68528, 68607>>,
     <<68681, 68735>>, <<68787, 68799>>, <<68851, 68857>>, <<68904, 68911>>,
     <<68922, 69215>>, <<69247, 69247>>, <<69290, 69290>>, <<69294, 69295>>,
     <<69298, 69375>>, <<69416, 69423>>, <<69466, 69487>>, <<69514, 69551>>,
     <<69580, 69599>>, <<69623, 69631>>, <<69710, 69713>>, <<69750, 69758>>,
     <<69821, 69821>>, <<69827, 69839>>, <<69865, 69871>>, <<69882, 69887>>,
     <<69941, 69941>>, <<69960, 69967>>, <<70007, 70015>>, <<70112, 70112>>,
     <<70133, 70143>>, <<70162, 70162>>, <<70207, 70271>>, <<70279, 70279>>,
     <<70281, 70281>>, <<70286, 70286>>, <<70302, 70302>>, <<70314, 70319>>,
     <<70379, 70383>>, <<70394, 70399>>, <<70404, 70404>>, <<70413, 70414>>,
     <<70417, 70418>>, <<70441, 70441>>, <<70449, 70449>>, <<70452, 70452>>,
     <<70458, 70458>>, <<70469, 70470>>, <<70473, 70474>>, <<70478, 70479>>,
     <<70481, 70486>>, <<70488, 70492>>, <<70500, 70501>>, <<70509, 70511>>,
     <<70517, 70655>>, <<70748, 70748>>, <<70754, 70783>>, <<70856, 70863>>,
     <<70874, 71039>>, <<71094, 71095>>, <<71134, 71167>>, <<71237, 71247>>,
     <<71258, 71263>>, <<71277, 71295>>, <<71354, 71359>>, <<71370, 71423>>,
     <<71451, 71452>>, <<71468, 71471>>, <<71495, 71679>>, <<71740, 71839>>,
     <<71923, 71934>>, <<71943, 71944>>, <<71946, 71947>>, <<71956, 71956>>,
     <<71959, 71959>>, <<71990, 71990>>, <<71993, 71994>>, <<72007, 72015>>,
     <<72026, 72095>>, <<72104, 72105>>, <<72152, 72153>>, <<72165, 72191>>,
     <<72264, 72271>>, <<72355, 72367>>, <<72441, 72703>>, <<72713, 72713>>,
     <<72759, 72759>>, <<72774, 72783>>, <<72813, 72815>>, <<72848, 72849>>,
     <<72872, 72872>>, <<72887, 72959>>, <<72967, 72967>>, <<72970, 72970>>,
     <<73015, 73017>>, <<73019, 73019>>, <<73022, 73022>>, <<73032, 73039>>,
     <<73050, 73055>>, <<73062, 73062>>, <<73065, 73065>>, <<73103, 73103>>,
     <<73106, 73106>>, <<73113, 73119>>, <<73130, 73439>>, <<73465, 73647>>,
     <<73649, 73663>>, <<73714, 73726>>, <<74650, 74751>>, <<74863, 74863>>,
     <<74869, 74879>>, <<75076, 77711>>, <<77811, 77823>>, <<78895, 82943>>,
     <<83527, 92159>>, <<92729, 92735>>, <<92767, 92767>>, <<92778, 92781>>,
     <<92863, 92863>>, <<92874, 92879>>, <<92910, 92911>>, <<92918, 92927>>,
     <<92998, 93007>>, <<93018, 93018>>, <<93026, 93026>>, <<93048, 93052>>,
     <<93072, 93759>>, <<93851, 93951>>, <<94027, 94030>>, <<94088, 94094>>,
     <<94112, 94175>>, <<94181, 94191>>, <<94194, 94207>>, <<100344, 100351>>,
     <<101590, 101631>>, <<101641, 110575>>, <<110580, 110580>>, <<110588, 110588>>,
     <<110591, 110591>>, <<110883, 110927>>, <<110931, 110947>>, <<110952, 110959>>,
     <<111356, 113663>>, <<113771, 113775>>, <<113789, 113791>>, <<113801, 113807>>,
     <<113818, 113819>>, <<113824, 118527>>, <<118574, 118575>>, <<118599, 118607>>,
     <<118724, 118783>>, <<119030, 119039>>, <<119079, 119080>>, <<119155, 119162>>,
     <<119275, 119295>>, <<119366, 119519>>, <<119540, 119551>>, <<119639, 119647>>,
     <<119673, 119807>>, <<119893, 119893>>, <<119965, 119965>>, <<119968, 119969>>,
     <<119971, 119972>>, <<119975, 119976>>, <<119981, 119981>>, <<119994, 119994>>,
     <<119996, 119996>>, <<120004, 120004>>, <<120070, 120070>>, <<120075, 120076>>,
     <<120085, 120085>>, <<120093, 120093>>, <<120122, 120122>>, <<120127, 120127>>,
     <<120133, 120133>>, <<120135, 120137>>, <<120145, 120145>>, <<120486, 120487>>,
     <<120780, 120781>>, <<121484, 121498>>, <<121504, 121504>>, <<121520, 122623>>,
     <<122655, 122879>>, <<122887, 122887>>, <<122905, 122906>>, <<122914, 122914>>,
     <<122917, 122917>>, <<122923, 123135>>, <<123181, 123183>>, <<123198, 123199>>,
     <<123210, 123213>>, <<123216, 123535>>, <<123567, 123583>>, <<123642, 123646>>,
     <<123648, 124895>>, <<124903, 124903>>, <<124908, 124908>>, <<124911, 124911>>,
     <<124927, 124927>>, <<125125, 125126>>, <<125143, 125183>>, <<125260, 125263>>,
     <<125274, 125277>>, <<125280, 126064>>, <<126133, 126208>>, <<126270, 126463>>,
     <<126468, 126468>>, <<126496, 126496>>, <<126499, 126499>>, <<126501, 126502>>,
     <<126504, 126504>>, <<126515, 126515>>, <<126520, 126520>>, <<126522, 126522>>,
     <<126524, 126529>>, <<126531, 126534>>, <<126536, 126536>>, <<126538, 126538>>,
     <<126540, 126540>>, <<126544, 126544>>, <<126547, 126547>>, <<126549, 126550>>,
     <<126552, 126552>>, <<126554, 126554>>, <<126556, 126556>>, <<126558, 126558>>,
     <<126560, 126560>>, <<126563, 126563>>, <<126565, 126566>>, <<126571, 126571>>,
     <<126579, 126579>>, <<126584, 126584>>, <<126589, 126589>>, <<126591, 126591>>,
     <<126602, 126602>>, <<126620, 126624>>, <<126628, 126628>>, <<126634, 126634>>,
     <<126652, 126703>>, <<126706, 126975>>, <<127020, 127023>>, <<127124, 127135>>,
     <<127151, 127152>>, <<127168, 127168>>, <<127184, 127184>>, <<127222, 127231>>,
     <<127406, 127461>>, <<127491, 127503>>, <<127548, 127551>>, <<127561, 127567>>,
     <<127570, 127583>>, <<127590, 127743>>, <<128728, 128732>>, <<128749, 128751>>,
     <<128765, 128767>>, <<128884, 128895>>, <<128985, 128991>>, <<129004, 129007>>,
     <<129009, 129023>>, <<129036, 129039>>, <<129096, 129103>>, <<129114, 129119>>,
     <<129160, 129167>>, <<129198, 129199>>, <<129202, 129279>>, <<129620, 129631>>,
     <<129646, 129647>>, <<129653, 129655>>, <<129661, 129663>>, <<129671, 129679>>,
     <<129709, 129711>>, <<129723, 129727>>, <<129734, 129743>>, <<129754, 129759>>,
     <<129768, 129775>>, <<129783, 129791>>, <<129939, 129939>>, <<129995, 130031>>,
     <<130042, 131071>>, <<173792, 173823>>, <<177977, 177983>>, <<178206, 178207>>,
     <<183970, 183983>>, <<191457, 194559>>, <<195102, 196607>>, <<201547, 917759>>,
     <<918000, 1114111>>}
isprintable(c) == ~\E r \in NonPrintable : r[1] <= c /\ c <= r[2]

\* n as width lower-case hexadecimal digits.
HexDigit(d) == IF d < 10 THEN 48 + d ELSE 87 + d
RECURSIVE Hex(_, _)
Hex(n, width) ==
    IF width = 0 THEN <<>> ELSE Append(Hex(n \div 16, width - 1), HexDigit(n % 16))

\* One character of a str as repr() writes it between quotes of kind quote: the quote
\* and the backslash behind a backslash, \t \n \r by letter, the other control
\* characters and what is not printable as \xhh, \uhhhh or \Uhhhhhhhh.
Escape(c, quote) ==
    IF c = quote \/ c = Backslash THEN <<Backslash, c>>
    ELSE IF c = 9 THEN <<Backslash, 116>>
    ELSE IF c = 10 THEN <<Backslash, 110>>
    ELSE IF c = 13 THEN <<Backslash, 114>>
    ELSE IF c < 32 \/ c = 127 THEN <<Backslash, 120>> \o Hex(c, 2)
    ELSE IF c < 127 \/ isprintable(c) THEN <<c>>
    ELSE IF c <= 255 THEN <<Backslash, 120>> \o Hex(c, 2)
    ELSE IF c <= 65535 THEN <<Backslash, 117>> \o Hex(c, 4)
    ELSE <<Backslash, 85>> \o Hex(c, 8)

\* The characters of s escaped one after the other; s is taken by halves.
RECURSIVE Escaped(_, _)
Escaped(s, quote) ==
    IF s = <<>> THEN <<>>
    ELSE IF Len(s) = 1 THEN Escape(s[1], quote)
    ELSE LET half == Len(s) \div 2
         IN  Escaped(SubSeq(s, 1, half), quote) \o Escaped(SubSeq(s, half + 1, Len(s)), quote)

\* The format %.nR: the first n characters of repr(s).  repr(s) is s escaped between
\* two quotes, double ones if s holds a single quote and no double one.  Every
\* character of s takes at least one place, so what follows the first n - 1 characters
\* of s cannot reach the first n of repr(s) and is not escaped here.
FormatR(s, n) ==
    LET quote == IF /\ \E i \in DOMAIN s : s[i] = Quote
                    /\ ~\E i \in DOMAIN s : s[i] = DoubleQuote
                 THEN DoubleQuote ELSE Quote
        head == SubSeq(s, 1, IF Len(s) < n THEN Len(s) ELSE n - 1)
        r == <<quote>> \o Escaped(head, quote) \o <<quote>>
    IN  SubSeq(r, 1, IF Len(r) < n THEN Len(r) ELSE n)

\* The ValueError of int() for a string that is no literal, its message the fixed
\* text and %.200R of s, and the one for a run of more digits than
\* sys.get_int_max_str_digits().
InvalidLiteral(s) ==
    [type |-> "ValueError",
     msg |-> <<"invalid literal for int() with base 10: ", FormatR(s, 200)>>,
     mro |-> <<"ValueError", "Exception", "BaseException", "object">>]
ExceedsLimit(digits) ==
    [type |-> "ValueError",
     msg |-> <<"Exceeds the limit (4300 digits) for integer string conversion: value has ",
               digits,
               " digits; use sys.set_int_max_str_digits() to increase the limit">>,
     mro |-> <<"ValueError", "Exception", "BaseException", "object">>]

\* int(s) of a string, in the order CPython works: leading whitespace and one sign are
\* skipped; the run of digits and underscores that follows is scanned, and an
\* underscore at either end of it or next to another makes the string no literal; the
\* digit limit is applied to that run, before what follows it is looked at; then the
\* run must hold a digit and only whitespace may follow.  raised # NoError: int raises
\* it.
int(s) ==
    LET t == lstrip(s)
        signed == t # <<>> /\ Head(t) \in {Plus, Minus}
        body == IF signed THEN Tail(t) ELSE t
        stops == {i \in DOMAIN body : body[i] \notin Digits \cup {Underscore}}
        end == IF stops = {} THEN Len(body)
               ELSE (CHOOSE i \in stops : \A j \in stops : i <= j) - 1
        run == SubSeq(body, 1, end)
        rest == SubSeq(body, end + 1, Len(body))
        underscores == \/ run # <<>> /\ (run[1] = Underscore \/ run[end] = Underscore)
                       \/ \E i \in 1..(end - 1) : run[i] = Underscore /\ run[i + 1] = Underscore
        digits == Cardinality({i \in DOMAIN run : run[i] # Underscore})
        magnitude == DecimalValue(run, 0)
    IN  IF underscores THEN [raised |-> InvalidLiteral(s), value |-> 0]
        ELSE IF digits > 4300 THEN [raised |-> ExceedsLimit(digits), value |-> 0]
        ELSE IF digits = 0 \/ lstrip(rest) # <<>>
             THEN [raised |-> InvalidLiteral(s), value |-> 0]
        ELSE [raised |-> NoError,
              value |-> IF signed /\ Head(t) = Minus THEN -magnitude ELSE magnitude]

\* What init_telemetry builds: a provider over a resource naming the service; the
\* batch span processor over the Jaeger exporter is added to it afterwards.
TracerProvider(service_name) == [service_name |-> service_name, processors |-> <<>>]
JaegerExporter(agent_host_name, agent_port) ==
    [agent_host_name |-> agent_host_name, agent_port |-> agent_port]
BatchSpanProcessor(exporter) == [exporter |-> exporter]
add_span_processor(provider, span_processor) ==
    [provider EXCEPT !.processors = Append(@, span_processor)]

\* opentelemetry.trace.set_tracer_provider as init_telemetry calls it: the library
\* installs the provider only if none was installed before.
set_tracer_provider(current, provider) == IF current = None THEN provider ELSE current

\* init_telemetry under environment env.  int() of JAEGER_PORT comes first: if it
\* raises, nothing is built.  Otherwise a provider is built and offered to the library
\* on every call, and the span processor is added to the provider just built.
init_telemetry(ambient, provs, service_name, env) ==
    LET \* "localhost", "6831"
        jaeger_host == getenv(env, "JAEGER_HOST", <<108, 111, 99, 97, 108, 104, 111, 115, 116>>)
        jaeger_port == int(getenv(env, "JAEGER_PORT", <<54, 56, 51, 49>>))
        provider == TracerProvider(service_name)
        span_processor == BatchSpanProcessor(JaegerExporter(jaeger_host, jaeger_port.value))
    IN  IF jaeger_port.raised # NoError
        THEN [ambient |-> ambient, providers |-> provs, raised |-> jaeger_port.raised]
        ELSE [ambient |-> set_tracer_provider(ambient, Len(provs) + 1),
              providers |-> Append(provs, add_span_processor(provider, span_processor)),
              raised |-> NoError]

\* str(e) and the description the library formats, "<type>: <message>", as the pieces
\* they are made of.
str(e) == e.msg
TypeAndMessage(e) == <<e.type, ": ">> \o e.msg

\* The span tracer.start_as_current_span(name) opens; it records only under an
\* installed provider.
start_as_current_span(ambient, name) ==
    [name |-> name, recording |-> ambient # None, ended |-> 0,
     status |-> [code |-> "UNSET", description |-> <<>>],
     exceptions |-> <<>>, attributes |-> {}]

record_exception(span, e) ==
    IF span.recording THEN [span EXCEPT !.exceptions = Append(@, e)] ELSE span

set_status(span, code, description) ==
    IF span.recording /\ span.status.code # "OK"
    THEN [span EXCEPT !.status = [code |-> code, description |-> description]]
    ELSE span

\* Leaving `with tracer.start_as_current_span(name)` with error exc (NoError: none):
\* start_trace_span passes no record_exception / set_status_on_exception argument, so
\* the library's defaults apply.  The library's exit handles `except Exception`: for an
\* Exception it records exc on the span and sets status ERROR with
\* "<type>: <message>"; an error outside Exception passes untouched.  In every case
\* the span is ended and exc continues.
ExitSpan(span, exc) ==
    LET s == IF IsException(exc)
             THEN set_status(record_exception(span, exc), "ERROR", TypeAndMessage(exc))
             ELSE span
    IN  [s EXCEPT !.ended = @ + 1]

\* start_trace_span up to its yield: the span with attrs set on it.
start_trace_span(ambient, name, attrs) ==
    LET span == start_as_current_span(ambient, name)
    IN  IF attrs # {} /\ span.recording THEN [span EXCEPT !.attributes = attrs] ELSE span

\* start_trace_span after its yield: the host's block, run on the open span, raised
\* blockErr (NoError: it returned) and the with-statement is left.
span_block(span, blockErr) ==
    [span |-> ExitSpan(span, blockErr), raised |-> blockErr, ret |-> None]

\* wrapper of trace_function(name) after the span is open: the callable raised err or
\* returned ret.  The wrapper's `except Exception` handler runs for an Exception only,
\* and re-raises it into the exit of start_trace_span's `with`.
trace_function(span, err, ret) ==
    LET handled == IF IsException(err)
                   THEN set_status(record_exception(span, err), "ERROR", str(err))
                   ELSE span
    IN  [span |-> ExitSpan(handled, err), raised |-> err,
         ret |-> IF err = NoError THEN ret ELSE None]

\* ------------------------------------------------------------------- state
NoSpan == [name |-> "", recording |-> FALSE, ended |-> 0,
           status |-> [code |-> "UNSET", description |-> <<>>],
           exceptions |-> <<>>, attributes |-> {}]

\* self: the registry object a method was called on (None for a function).
CallRec(op, self, arg, block, raised, ret) ==
    [op |-> op, self |-> self, arg |-> arg, block |-> block, raised |-> raised, ret |-> ret]

Init ==
    /\ _kafka_metrics = None
    /\ kafkaObjs = <<>>
    /\ _job_metrics = None
    /\ jobObjs = <<>>
    /\ store = EmptyBag
    /\ _TRACER_PROVIDER = None
    /\ providers = <<>>
    /\ open = <<>>
    /\ lastSpan = NoSpan
    /\ last = CallRec("", None, "", NoError, NoError, None)
    /\ calls = 0
    /\ pc = [t \in Threads |-> "idle"]
    /\ local = [t \in Threads |-> [kind |-> "", name |-> "", obj |-> None, ret |-> None]]

\* A method call on registry object self whose body is the instrument calls cs and
\* holds no try/except: it returns None, or the error of the failing call leaves it.
Method(op, self, arg, cs, f) ==
    /\ calls < MaxCalls
    /\ f <= Len(cs)
    /\ LET r == Invoke(store, cs, f)
       IN  /\ store' = r.store
           /\ last' = CallRec(op, self, arg, NoError,
                              IF r.raised THEN InstrumentError ELSE NoError, None)
    /\ calls' = calls + 1
    /\ UNCHANGED <<_kafka_metrics, kafkaObjs, _job_metrics, jobObjs, _TRACER_PROVIDER,
                   providers, open, lastSpan, pc, local>>

\* A scope of the host: its kind, its argument and what its context manager holds
\* across the yield: the open span, or the registry object and start_time.
Scope(op, name, span, self, start_time) ==
    [op |-> op, name |-> name, span |-> span, self |-> self, start_time |-> start_time]

\* Entering a scope: its context manager ran up to the yield, and the host's block or
\* callable runs, any API call in it included, before the scope is left.
Enter(scope) ==
    /\ calls < MaxCalls
    /\ open' = Append(open, scope)
    /\ last' = CallRec("enter", scope.self, scope.name, NoError, NoError, None)
    /\ calls' = calls + 1
    /\ UNCHANGED <<_kafka_metrics, kafkaObjs, _job_metrics, jobObjs, store,
                   _TRACER_PROVIDER, providers, lastSpan, pc, local>>

\* Leaving the innermost scope, a `with registry.measure_*(...)` block of kind op
\* entered on registry object self; r is what the context manager did and raised
\* after its yield.  f and g name a call of the branch that runs, clock starts with
\* the reading made on entry and changes only at the readings the code makes.
Measured(op, self, clock, blockErr, r, f, g) ==
    /\ open[Len(open)].op = op
    /\ clock[1] = open[Len(open)].start_time
    /\ f <= r.tryCalls /\ g <= r.excCalls
    /\ \A k \in (r.readings + 1)..Len(clock) : clock[k] = clock[k - 1]
    /\ store' = r.store
    /\ open' = SubSeq(open, 1, Len(open) - 1)
    /\ last' = CallRec(op, self, open[Len(open)].name, blockErr, r.raised, None)
    /\ UNCHANGED <<_kafka_metrics, kafkaObjs, _job_metrics, jobObjs, _TRACER_PROVIDER,
                   providers, lastSpan, calls, pc, local>>

\* ------------------------------------------------------ actions: KafkaMetrics
\* self is any KafkaMetrics object the host holds: the one behind the handle or one
\* it constructed itself.
RecordMessageSent(self, topic, success, f) ==
    /\ self \in DOMAIN kafkaObjs
    /\ Method("record_message_sent", self, topic,
              record_message_sent(kafkaObjs[self], topic, success), f)

RecordReconnection(self, f) ==
    /\ self \in DOMAIN kafkaObjs
    /\ Method("record_reconnection", self, "",
              record_reconnection(kafkaObjs[self]), f)

RecordSendDuration(self, duration, topic, f) ==
    /\ self \in DOMAIN kafkaObjs
    /\ Method("record_send_duration", self, topic,
              record_send_duration(kafkaObjs[self], duration, topic), f)

RecordRetryAttempts(self, attempts, topic, f) ==
    /\ self \in DOMAIN kafkaObjs
    /\ Method("record_retry_attempts", self, topic,
              record_retry_attempts(kafkaObjs[self], attempts, topic), f)

SetProducerHealth(self, healthy, f) ==
    /\ self \in DOMAIN kafkaObjs
    /\ Method("set_producer_health", self, IF healthy THEN "True" ELSE "False",
              set_producer_health(kafkaObjs[self], healthy), f)

\* `with self.measure_send_time(topic):` up to the yield: start_time is read.
MeasureSendTimeEnter(self, topic, start_time) ==
    /\ self \in DOMAIN kafkaObjs
    /\ Enter(Scope("measure_send_time", topic, NoSpan, self, start_time))

\* The block of the innermost `with self.measure_send_time(topic)` raised blockErr or
\* returned, and the context manager is resumed.
MeasureSendTimeExit(clock, blockErr, f, g) ==
    /\ open # <<>>
    /\ LET self == open[Len(open)].self
           topic == open[Len(open)].name
       IN  Measured("measure_send_time", self, clock, blockErr,
                    measure_send_time(store, kafkaObjs[self], topic, clock, blockErr, f, g),
                    f, g)

\* -------------------------------------------------------- actions: JobMetrics
RecordJobCreated(self, job_type, f) ==
    /\ self \in DOMAIN jobObjs
    /\ Method("record_job_created", self, job_type,
              record_job_created(jobObjs[self], job_type), f)

RecordJobCompleted(self, job_type, duration, f) ==
    /\ self \in DOMAIN jobObjs
    /\ Method("record_job_completed", self, job_type,
              record_job_completed(jobObjs[self], job_type, duration), f)

RecordJobFailed(self, job_type, error_code, f) ==
    /\ self \in DOMAIN jobObjs
    /\ Method("record_job_failed", self, job_type,
              record_job_failed(jobObjs[self], job_type, error_code), f)

RecordJobCancelled(self, job_type, f) ==
    /\ self \in DOMAIN jobObjs
    /\ Method("record_job_cancelled", self, job_type,
              record_job_cancelled(jobObjs[self], job_type), f)

RecordJobExpired(self, job_type, f) ==
    /\ self \in DOMAIN jobObjs
    /\ Method("record_job_expired", self, job_type,
              record_job_expired(jobObjs[self], job_type), f)

RecordWsConnection(self, delta, f) ==
    /\ self \in DOMAIN jobObjs
    /\ Method("record_ws_connection", self, "",
              record_ws_connection(jobObjs[self], delta), f)

RecordWsSubscription(self, delta, f) ==
    /\ self \in DOMAIN jobObjs
    /\ Method("record_ws_subscription", self, "",
              record_ws_subscription(jobObjs[self], delta), f)

RecordWsMessage(self, message_type, f) ==
    /\ self \in DOMAIN jobObjs
    /\ Method("record_ws_message", self, message_type,
              record_ws_message(jobObjs[self], message_type), f)

RecordWsHeartbeat(self, f) ==
    /\ self \in DOMAIN jobObjs
    /\ Method("record_ws_heartbeat", self, "",
              record_ws_heartbeat(jobObjs[self]), f)

RecordPollRequest(self, job_type, f) ==
    /\ self \in DOMAIN jobObjs
    /\ Method("record_poll_request", self, job_type,
              record_poll_request(jobObjs[self], job_type), f)

RecordCacheHit(self, cache_type, f) ==
    /\ self \in DOMAIN jobObjs
    /\ Method("record_cache_hit", self, cache_type,
              record_cache_hit(jobObjs[self], cache_type), f)

RecordCacheMiss(self, cache_type, f) ==
    /\ self \in DOMAIN jobObjs
    /\ Method("record_cache_miss", self, cache_type,
              record_cache_miss(jobObjs[self], cache_type), f)

RecordIdempotentRequest(self, f) ==
    /\ self \in DOMAIN jobObjs
    /\ Method("record_idempotent_request", self, "",
              record_idempotent_request(jobObjs[self]), f)

RecordIdempotentHit(self, f) ==
    /\ self \in DOMAIN jobObjs
    /\ Method("record_idempotent_hit", self, "",
              record_idempotent_hit(jobObjs[self]), f)

\* `with self.measure_job_duration(job_type):` up to the yield: start_time is read.
MeasureJobDurationEnter(self, job_type, start_time) ==
    /\ self \in DOMAIN jobObjs
    /\ Enter(Scope("measure_job_duration", job_type, NoSpan, self, start_time))

\* The block of the innermost `with self.measure_job_duration(job_type)` raised
\* blockErr or returned, and the context manager is resumed.
MeasureJobDurationExit(clock, blockErr, f, g) ==
    /\ open # <<>>
    /\ LET self == open[Len(open)].self
           job_type == open[Len(open)].name
       IN  Measured("measure_job_duration", self, clock, blockErr,
                    measure_job_duration(store, jobObjs[self], job_type, clock, blockErr,
                                         f, g),
                    f, g)

\* ------------------------------------------- the global handles: init_* / get_*
\* init_kafka_metrics without the `is None` check: every call constructs and assigns.
init_kafka_metrics_unguarded(handle, objs, service_name) ==
    LET objs2 == Append(objs, KafkaMetrics(service_name))
    IN  [handle |-> Len(objs2), objs |-> objs2, ret |-> Len(objs2)]

\* get_kafka_metrics constructing a registry on first use.
get_kafka_metrics_lazy(handle, objs) ==
    IF handle = None
    THEN [handle |-> Len(objs) + 1, objs |-> Append(objs, KafkaMetrics("svcA")),
          ret |-> Len(objs) + 1]
    ELSE [handle |-> handle, objs |-> objs, ret |-> handle]

\* if handle is None: handle = Registry(service_name); return handle
init_kafka_metrics(handle, objs, service_name) ==
    LET made == handle = None
        objs2 == IF made THEN Append(objs, KafkaMetrics(service_name)) ELSE objs
        handle2 == IF made THEN Len(objs2) ELSE handle
    IN  [handle |-> handle2, objs |-> objs2, ret |-> handle2]

get_kafka_metrics(handle, objs) == [handle |-> handle, objs |-> objs, ret |-> handle]

init_job_metrics(handle, objs, service_name) ==
    LET made == handle = None
        objs2 == IF made THEN Append(objs, JobMetrics(service_name)) ELSE objs
        handle2 == IF made THEN Len(objs2) ELSE handle
    IN  [handle |-> handle2, objs |-> objs2, ret |-> handle2]

get_job_metrics(handle, objs) == [handle |-> handle, objs |-> objs, ret |-> handle]

\* The public constructor called by the host itself: a new object, the handle untouched.
NewKafkaMetrics(handle, objs, service_name) ==
    [handle |-> handle, objs |-> Append(objs, KafkaMetrics(service_name)),
     ret |-> Len(objs) + 1]

NewJobMetrics(handle, objs, service_name) ==
    [handle |-> handle, objs |-> Append(objs, JobMetrics(service_name)),
     ret |-> Len(objs) + 1]

KafkaHandleCall(op, arg, r) ==
    /\ calls < MaxCalls
    /\ _kafka_metrics' = r.handle
    /\ kafkaObjs' = r.objs
    /\ last' = CallRec(op, None, arg, NoError, NoError, r.ret)
    /\ calls' = calls + 1
    /\ UNCHANGED <<_job_metrics, jobObjs, store, _TRACER_PROVIDER, providers, open,
                   lastSpan, pc, local>>

JobHandleCall(op, arg, r) ==
    /\ calls < MaxCalls
    /\ _job_metrics' = r.handle
    /\ jobObjs' = r.objs
    /\ last' = CallRec(op, None, arg, NoError, NoError, r.ret)
    /\ calls' = calls + 1
    /\ UNCHANGED <<_kafka_metrics, kafkaObjs, store, _TRACER_PROVIDER, providers, open,
                   lastSpan, pc, local>>

InitKafkaMetrics(service_name) ==
    KafkaHandleCall("init_kafka_metrics", service_name,
                    init_kafka_metrics(_kafka_metrics, kafkaObjs, service_name))

ConstructKafkaMetrics(service_name) ==
    KafkaHandleCall("KafkaMetrics", service_name,
                    NewKafkaMetrics(_kafka_metrics, kafkaObjs, service_name))

GetKafkaMetrics ==
    KafkaHandleCall("get_kafka_metrics", "", get_kafka_metrics(_kafka_metrics, kafkaObjs))

InitJobMetrics(service_name) ==
    JobHandleCall("init_job_metrics", service_name,
                  init_job_metrics(_job_metrics, jobObjs, service_name))

ConstructJobMetrics(service_name) ==
    JobHandleCall("JobMetrics", service_name,
                  NewJobMetrics(_job_metrics, jobObjs, service_name))

GetJobMetrics ==
    JobHandleCall("get_job_metrics", "", get_job_metrics(_job_metrics, jobObjs))

\* --------------------------------------------------------- actions: telemetry
\* init_telemetry(service_name) with the process environment env.
InitTelemetry(service_name, env) ==
    /\ calls < MaxCalls
    /\ LET r == init_telemetry(_TRACER_PROVIDER, providers, service_name, env)
       IN  /\ providers' = r.providers
           /\ _TRACER_PROVIDER' = r.ambient
           /\ last' = CallRec("init_telemetry", None, service_name, NoError, r.raised, None)
    /\ calls' = calls + 1
    /\ UNCHANGED <<_kafka_metrics, kafkaObjs, _job_metrics, jobObjs, store, open, lastSpan,
                   pc, local>>

\* Leaving the innermost scope, a traced one of kind op, with what its exit r did.
Leave(op, blockErr, r) ==
    /\ open # <<>>
    /\ open[Len(open)].op = op
    /\ open' = SubSeq(open, 1, Len(open) - 1)
    /\ lastSpan' = r.span
    /\ last' = CallRec(op, None, open[Len(open)].name, blockErr, r.raised, r.ret)
    /\ UNCHANGED <<_kafka_metrics, kafkaObjs, _job_metrics, jobObjs, store,
                   _TRACER_PROVIDER, providers, calls, pc, local>>

\* `with start_trace_span(name, attrs):` up to the yield: the span is opened under the
\* provider installed now.
StartTraceSpanEnter(name, attrs) ==
    Enter(Scope("start_trace_span", name, start_trace_span(_TRACER_PROVIDER, name, attrs),
                None, None))

\* The block of the innermost `with start_trace_span(...)` raised blockErr or returned.
StartTraceSpanExit(blockErr) ==
    /\ open # <<>>
    /\ Leave("start_trace_span", blockErr, span_block(open[Len(open)].span, blockErr))

\* A call of a function decorated with trace_function(name), up to func(*args).
TraceFunctionEnter(name) ==
    Enter(Scope("trace_function", name, start_trace_span(_TRACER_PROVIDER, name, {}),
                None, None))

\* The decorated function raised err or returned ret.
TraceFunctionExit(err, ret) ==
    /\ open # <<>>
    /\ Leave("trace_function", err, trace_function(open[Len(open)].span, err, ret))

\* ------------------------------------------- init_* statement by statement
\* A thread enters init_kafka_metrics(name) or init_job_metrics(name).
ThreadCall(t, kind, name) ==
    /\ pc[t] = "idle"
    /\ pc' = [pc EXCEPT ![t] = "check"]
    /\ local' = [local EXCEPT ![t] = [kind |-> kind, name |-> name, obj |-> None, ret |-> None]]
    /\ UNCHANGED <<_kafka_metrics, kafkaObjs, _job_metrics, jobObjs, store,
                   _TRACER_PROVIDER, providers, open, lastSpan, last, calls>>

Handle(kind) == IF kind = "kafka" THEN _kafka_metrics ELSE _job_metrics

\* if _kafka_metrics is None:
ThreadCheck(t) ==
    /\ pc[t] = "check"
    /\ pc' = [pc EXCEPT ![t] = IF Handle(local[t].kind) = None THEN "construct" ELSE "return"]
    /\ UNCHANGED <<_kafka_metrics, kafkaObjs, _job_metrics, jobObjs, store,
                   _TRACER_PROVIDER, providers, open, lastSpan, last, calls, local>>

\* KafkaMetrics(service_name): the constructor registers the instruments.
ThreadConstruct(t) ==
    /\ pc[t] = "construct"
    /\ IF local[t].kind = "kafka"
       THEN /\ kafkaObjs' = Append(kafkaObjs, KafkaMetrics(local[t].name))
            /\ local' = [local EXCEPT ![t].obj = Len(kafkaObjs) + 1]
            /\ UNCHANGED jobObjs
       ELSE /\ jobObjs' = Append(jobObjs, JobMetrics(local[t].name))
            /\ local' = [local EXCEPT ![t].obj = Len(jobObjs) + 1]
            /\ UNCHANGED kafkaObjs
    /\ pc' = [pc EXCEPT ![t] = "assign"]
    /\ UNCHANGED <<_kafka_metrics, _job_metrics, store, _TRACER_PROVIDER, providers,
                   open, lastSpan, last, calls>>

\* _kafka_metrics = <the new object>
ThreadAssign(t) ==
    /\ pc[t] = "assign"
    /\ IF local[t].kind = "kafka"
       THEN _kafka_metrics' = local[t].obj /\ UNCHANGED _job_metrics
       ELSE _job_metrics' = local[t].obj /\ UNCHANGED _kafka_metrics
    /\ pc' = [pc EXCEPT ![t] = "return"]
    /\ UNCHANGED <<kafkaObjs, jobObjs, store, _TRACER_PROVIDER, providers, open, lastSpan,
                   last, calls, local>>

\* return _kafka_metrics
ThreadReturn(t) ==
    /\ pc[t] = "return"
    /\ local' = [local EXCEPT ![t].ret = Handle(local[t].kind)]
    /\ pc' = [pc EXCEPT ![t] = "done"]
    /\ UNCHANGED <<_kafka_metrics, kafkaObjs, _job_metrics, jobObjs, store,
                   _TRACER_PROVIDER, providers, open, lastSpan, last, calls>>

\* ------------------------------------------------------------ specifications
\* The API called from one thread of control; F: the fault positions the instrument
\* backend can produce.
Api(F) ==
    \/ \E s \in ServiceNames : ConstructKafkaMetrics(s)
    \/ \E s \in ServiceNames : InitKafkaMetrics(s)
    \/ GetKafkaMetrics
    \/ \E self \in DOMAIN kafkaObjs, topic \in Topics, success \in BOOLEAN, f \in F :
          RecordMessageSent(self, topic, success, f)
    \/ \E self \in DOMAIN kafkaObjs, f \in F : RecordReconnection(self, f)
    \/ \E self \in DOMAIN kafkaObjs, d \in Elapsed, topic \in Topics, f \in F :
          RecordSendDuration(self, d, topic, f)
    \/ \E self \in DOMAIN kafkaObjs, n \in Attempts, topic \in Topics, f \in F :
          RecordRetryAttempts(self, n, topic, f)
    \/ \E self \in DOMAIN kafkaObjs, healthy \in BOOLEAN, f \in F :
          SetProducerHealth(self, healthy, f)
    \/ \E self \in DOMAIN kafkaObjs, topic \in Topics, start_time \in StartTimes :
          MeasureSendTimeEnter(self, topic, start_time)
    \/ \E clock \in Clocks, e \in BlockErrors \cup {NoError}, f \in F, g \in F :
          MeasureSendTimeExit(clock, e, f, g)
    \/ \E s \in ServiceNames : ConstructJobMetrics(s)
    \/ \E s \in ServiceNames : InitJobMetrics(s)
    \/ GetJobMetrics
    \/ \E self \in DOMAIN jobObjs, jt \in JobTypes, f \in F : RecordJobCreated(self, jt, f)
    \/ \E self \in DOMAIN jobObjs, jt \in JobTypes, d \in Elapsed, f \in F :
          RecordJobCompleted(self, jt, d, f)
    \/ \E self \in DOMAIN jobObjs, jt \in JobTypes, ec \in ErrorCodes, f \in F :
          RecordJobFailed(self, jt, ec, f)
    \/ \E self \in DOMAIN jobObjs, jt \in JobTypes, f \in F : RecordJobCancelled(self, jt, f)
    \/ \E self \in DOMAIN jobObjs, jt \in JobTypes, f \in F : RecordJobExpired(self, jt, f)
    \/ \E self \in DOMAIN jobObjs, delta \in Deltas, f \in F :
          RecordWsConnection(self, delta, f)
    \/ \E self \in DOMAIN jobObjs, delta \in Deltas, f \in F :
          RecordWsSubscription(self, delta, f)
    \/ \E self \in DOMAIN jobObjs, mt \in MessageTypes, f \in F : RecordWsMessage(self, mt, f)
    \/ \E self \in DOMAIN jobObjs, f \in F : RecordWsHeartbeat(self, f)
    \/ \E self \in DOMAIN jobObjs, jt \in JobTypes, f \in F : RecordPollRequest(self, jt, f)
    \/ \E self \in DOMAIN jobObjs, ct \in CacheTypes, f \in F : RecordCacheHit(self, ct, f)
    \/ \E self \in DOMAIN jobObjs, ct \in CacheTypes, f \in F : RecordCacheMiss(self, ct, f)
    \/ \E self \in DOMAIN jobObjs, f \in F : RecordIdempotentRequest(self, f)
    \/ \E self \in DOMAIN jobObjs, f \in F : RecordIdempotentHit(self, f)
    \/ \E self \in DOMAIN jobObjs, jt \in JobTypes, start_time \in StartTimes :
          MeasureJobDurationEnter(self, jt, start_time)
    \/ \E clock \in Clocks, e \in BlockErrors \cup {NoError}, f \in F, g \in F :
          MeasureJobDurationExit(clock, e, f, g)
    \/ \E s \in ServiceNames, env \in Environs : InitTelemetry(s, env)
    \/ \E n \in SpanNames, a \in AttrSets : StartTraceSpanEnter(n, a)
    \/ \E e \in BlockErrors \cup {NoError} : StartTraceSpanExit(e)
    \/ \E n \in SpanNames : TraceFunctionEnter(n)
    \/ \E e \in BlockErrors \cup {NoError}, r \in ReturnValues : TraceFunctionExit(e, r)

Next == Api({0})
Spec == Init /\ [][Next]_vars

NextFault == Api(FaultPositions)
SpecFault == Init /\ [][NextFault]_vars

NextThreads ==
    \E t \in Threads :
        \/ \E kind \in {"kafka", "job"}, s \in ServiceNames : ThreadCall(t, kind, s)
        \/ ThreadCheck(t)
        \/ ThreadConstruct(t)
        \/ ThreadAssign(t)
        \/ ThreadReturn(t)
SpecThreads == Init /\ [][NextThreads]_vars

\* ------------------------------------------------------------------ claims
Topic(t) == <<"topic", t>>
JobType(jt) == <<"job_type", jt>>

RecordOps ==
    {"record_message_sent", "record_reconnection", "record_send_duration",
     "record_retry_attempts", "set_producer_health", "record_job_created",
     "record_job_completed", "record_job_failed", "record_job_cancelled",
     "record_job_expired", "record_ws_connection", "record_ws_subscription",
     "record_ws_message", "record_ws_heartbeat", "record_poll_request",
     "record_cache_hit", "record_cache_miss", "record_idempotent_request",
     "record_idempotent_hit"}

\* C1: no record_* method (nor set_producer_health) raises to its caller, also when the
\* instrument call it makes fails.  Stated over SpecFault, where instrument calls can
\* fail; the methods hold no try/except, so the instrument's error leaves them.
C1_RecordNeverRaises == last.op \in RecordOps => last.raised = NoError

\* C2: every use of measure_send_time(t) records exactly one send-duration observation
\* labelled t and adds exactly 1 to exactly one outcome counter labelled t:
\* messages_failed iff an error escaped the block, messages_sent otherwise; nothing is
\* recorded under another topic; the block's error is re-raised unchanged.  The except
\* clause names Exception, so a block error outside Exception (a cancellation) leaves
\* with nothing recorded; and the recording calls sit inside the try, so under
\* SpecFault an instrument error raised after a block that returned is handled as if
\* the block had raised.
C2_MeasureSendTime ==
    [][last'.op = "measure_send_time" =>
         /\ last'.raised = last'.block
         /\ \A u \in Topics :
              LET one == IF u = last'.arg THEN 1 ELSE 0
                  failed == IF last'.block # NoError THEN one ELSE 0
              IN  /\ Observations(store', "kafka_send_duration_seconds", Topic(u))
                       = Observations(store, "kafka_send_duration_seconds", Topic(u)) + one
                  /\ Value(store', "kafka_messages_failed_total", Topic(u))
                       = Value(store, "kafka_messages_failed_total", Topic(u)) + failed
                  /\ Value(store', "kafka_messages_sent_total", Topic(u))
                       = Value(store, "kafka_messages_sent_total", Topic(u)) + (one - failed)
    ]_vars

\* C3: measure_job_duration(job_type) follows measure_send_time's outcome contract:
\* when an error escapes the block, jobs_failed for that job type goes up by exactly 1,
\* exactly one duration observation is recorded and the error is re-raised unchanged.
C3_FailedJobCounted ==
    [][(last'.op = "measure_job_duration" /\ last'.block # NoError) =>
         /\ last'.raised = last'.block
         /\ Observations(store', "job_duration_seconds", JobType(last'.arg))
              = Observations(store, "job_duration_seconds", JobType(last'.arg)) + 1
         /\ Value(store', "jobs_failed_total", JobType(last'.arg))
              = Value(store, "jobs_failed_total", JobType(last'.arg)) + 1
    ]_vars

\* The job-lifecycle counter a call adds to, if it is a creation or a terminal outcome.
Creation(c) == c.op = "record_job_created"
TerminalCounter(c) ==
    CASE c.op = "record_job_completed" -> "jobs_completed_total"
      [] c.op = "record_job_failed" -> "jobs_failed_total"
      [] c.op = "record_job_cancelled" -> "jobs_cancelled_total"
      [] c.op = "record_job_expired" -> "jobs_expired_total"
      [] c.op = "measure_job_duration" /\ c.block = NoError -> "jobs_completed_total"
      [] c.op = "measure_job_duration" /\ c.block # NoError -> "jobs_failed_total"
      [] OTHER -> ""
LifecycleCounters ==
    {"jobs_created_total", "jobs_completed_total", "jobs_failed_total",
     "jobs_cancelled_total", "jobs_expired_total"}
QueueSize(b) == AmountOver(b, {s \in BagToSet(b) : s.inst = "job_queue_size"})
Total(b, inst) == AmountOver(b, {s \in BagToSet(b) : s.inst = inst})

\* C4: the queue size is creations minus terminal outcomes: a creation adds exactly +1
\* to job_queue_size, every terminal outcome (completed, failed, cancelled, expired, by
\* record_job_* or by measure_job_duration) adds exactly -1 and exactly 1 to its own
\* counter, and no other call moves the queue size.
C4_QueueSizeBalance ==
    [][/\ QueueSize(store') - QueueSize(store) =
            IF Creation(last') THEN 1 ELSE IF TerminalCounter(last') # "" THEN -1 ELSE 0
       /\ \A c \in LifecycleCounters :
            Total(store', c) - Total(store, c) =
                IF (Creation(last') /\ c = "jobs_created_total") \/ c = TerminalCounter(last')
                THEN 1 ELSE 0
    ]_vars

\* C5: get_kafka_metrics (get_job_metrics) returns the handle without raising and never
\* constructs a registry or changes the handle; the handle moves only in an init_* call
\* of the same registry, so it is None, and get_* returns None, until the first init_*
\* call; objects appear only through init_* or the class's own constructor.
C5_GetNeverConstructs ==
    [][/\ last'.op = "get_kafka_metrics" =>
            /\ _kafka_metrics' = _kafka_metrics /\ kafkaObjs' = kafkaObjs
            /\ last'.ret = _kafka_metrics /\ last'.raised = NoError
       /\ last'.op = "get_job_metrics" =>
            /\ _job_metrics' = _job_metrics /\ jobObjs' = jobObjs
            /\ last'.ret = _job_metrics /\ last'.raised = NoError
       /\ _kafka_metrics' # _kafka_metrics => last'.op = "init_kafka_metrics"
       /\ _job_metrics' # _job_metrics => last'.op = "init_job_metrics"
       /\ kafkaObjs' # kafkaObjs => last'.op \in {"init_kafka_metrics", "KafkaMetrics"}
       /\ jobObjs' # jobObjs => last'.op \in {"init_job_metrics", "JobMetrics"}
    ]_vars

\* C5 witness: get_kafka_metrics() before any init_kafka_metrics, after the host
\* constructed a KafkaMetrics itself: it returned None and the handle is None.
C5_Witness ==
    /\ last.op = "get_kafka_metrics" /\ last.ret = None /\ last.raised = NoError
    /\ _kafka_metrics = None /\ kafkaObjs # <<>>
    /\ calls >= 2

\* C6: over sequential init_* calls exactly one registry of each kind is constructed
\* by them: the first call constructs it under its own argument and sets the handle,
\* every later call constructs nothing and returns that object, whose service_name
\* never changes whatever names follow; get_* returns it; the handle, once set, is
\* never reset or replaced.
C6_SingleRegistry ==
    [][/\ _kafka_metrics # None => _kafka_metrics' = _kafka_metrics
       /\ _job_metrics # None => _job_metrics' = _job_metrics
       /\ \A i \in DOMAIN kafkaObjs : i \in DOMAIN kafkaObjs' /\ kafkaObjs'[i] = kafkaObjs[i]
       /\ \A i \in DOMAIN jobObjs : i \in DOMAIN jobObjs' /\ jobObjs'[i] = jobObjs[i]
       /\ last'.op = "init_kafka_metrics" =>
            /\ last'.raised = NoError
            /\ _kafka_metrics' # None /\ last'.ret = _kafka_metrics'
            /\ _kafka_metrics # None => kafkaObjs' = kafkaObjs
            /\ _kafka_metrics = None =>
                 /\ kafkaObjs' = Append(kafkaObjs, KafkaMetrics(last'.arg))
                 /\ _kafka_metrics' = Len(kafkaObjs')
       /\ last'.op = "init_job_metrics" =>
            /\ last'.raised = NoError
            /\ _job_metrics' # None /\ last'.ret = _job_metrics'
            /\ _job_metrics # None => jobObjs' = jobObjs
            /\ _job_metrics = None =>
                 /\ jobObjs' = Append(jobObjs, JobMetrics(last'.arg))
                 /\ _job_metrics' = Len(jobObjs')
       /\ last'.op = "get_kafka_metrics" => last'.ret = _kafka_metrics'
       /\ last'.op = "get_job_metrics" => last'.ret = _job_metrics'
    ]_vars

\* C6 witness: init_kafka_metrics("svcB") after init_kafka_metrics("svcA") returned
\* the first object, still named "svcA", and constructed nothing.
C6_Witness ==
    /\ last.op = "init_kafka_metrics" /\ last.arg = "svcB" /\ last.ret = 1
    /\ _kafka_metrics = 1
    /\ kafkaObjs = <<KafkaMetrics("svcA")>>

\* C7: when threads run init_kafka_metrics (init_job_metrics) concurrently from a None
\* handle, at most one registry of each kind is constructed, so each instrument name
\* is registered at most once, and every caller that returned got the same object.
C7_OneRegistryUnderThreads ==
    /\ Len(kafkaObjs) <= 1
    /\ Len(jobObjs) <= 1
    /\ \A t, u \in Threads :
         (pc[t] = "done" /\ pc[u] = "done" /\ local[t].kind = local[u].kind)
            => local[t].ret = local[u].ret

\* C8: an init_telemetry call made after one that set tracing up does not raise and
\* leaves the first call's configuration intact: no second provider is built and
\* installed, so the ambient provider remains the first call's, and that provider, its
\* service name and its export pipeline are as the first call left them.
C8_SecondInitKeepsFirst ==
    [][(last'.op = "init_telemetry" /\ providers # <<>>) =>
         /\ last'.raised = NoError
         /\ _TRACER_PROVIDER' = _TRACER_PROVIDER
         /\ \A i \in DOMAIN providers : i \in DOMAIN providers' /\ providers'[i] = providers[i]
    ]_vars

\* C9: a callable wrapped by trace_function(name), run under an installed provider:
\* if it raises E, the span is ended exactly once, its final status is ERROR with
\* description str(E), exactly one exception record is attached and exactly E is
\* re-raised; if it returns, the span is ended exactly once with no exception record
\* and the return value is passed through.
C9_TracedErrorRecordedOnce ==
    (last.op = "trace_function" /\ lastSpan.recording) =>
        /\ lastSpan.ended = 1
        /\ last.raised = last.block
        /\ last.block # NoError =>
             /\ lastSpan.status = [code |-> "ERROR", description |-> str(last.block)]
             /\ Len(lastSpan.exceptions) = 1
        /\ last.block = NoError =>
             /\ lastSpan.exceptions = <<>>
             /\ last.ret \in ReturnValues

ServiceLabels(sample) == {l \in sample.labels : l[1] = "service"}

\* C10: every sample a KafkaMetrics or JobMetrics operation records carries the label
\* service, equal to the service_name of the registry object the operation was called
\* on, and no step removes a sample.
C10_ServiceLabel ==
    [][/\ store (-) store' = EmptyBag
       /\ \A sample \in BagToSet(store' (-) store) :
            /\ sample.inst \in KafkaInstruments \cup JobInstruments
            /\ sample.inst \in KafkaInstruments =>
                 /\ last'.self \in DOMAIN kafkaObjs
                 /\ ServiceLabels(sample) = {<<"service", kafkaObjs[last'.self].service_name>>}
            /\ sample.inst \in JobInstruments =>
                 /\ last'.self \in DOMAIN jobObjs
                 /\ ServiceLabels(sample) = {<<"service", jobObjs[last'.self].service_name>>}
    ]_vars

\* C10 witness: with the handle's registry named "svcA", the host constructed a
\* JobMetrics("svcB") itself, and the except branch of measure_job_duration called on
\* it, around a block that raised an Exception, recorded its sample under "svcB".
C10_Witness ==
    /\ last.op = "measure_job_duration" /\ IsException(last.block) /\ last.self = 2
    /\ calls = 3
    /\ _job_metrics = 1
    /\ jobObjs = <<JobMetrics("svcA"), JobMetrics("svcB")>>
    /\ BagToSet(store) =
         {Sample("job_duration_seconds", 1,
                 {<<"job_type", "export">>, <<"status", "failed">>, <<"service", "svcB">>})}

\* C11: after any sequence of set_producer_health calls the accumulated value of
\* kafka_producer_health for the service is 1 when the most recent call passed
\* healthy=True and 0 when it passed healthy=False (the instrument's description:
\* 1=healthy, 0=unhealthy), so the value stays within {0, 1}, also when the same health
\* value is set repeatedly.
C11_HealthIsLastSetting ==
    last.op = "set_producer_health" =>
        Value(store, "kafka_producer_health", Service(kafkaObjs[last.self]))
            = IF last.arg = "True" THEN 1 ELSE 0

====
